---- MODULE Spec2Model ----
(***************************************************************************)
(* Payslip generation: the batch run of src/main.py with its email step,   *)
(* the page renderer of src/pdf/reportlab_payslip_exporter.py, and, each   *)
(* alone, fmt_currency and resolve_period of src/utils/period.py.          *)
(*                                                                         *)
(* Lengths are integers in units of 1/127 point, so that both a            *)
(* millimetre (72/25.4 pt = 360 units) and a point (127 units) are exact.  *)
(* Money is an integer number of eighths of the currency unit: such        *)
(* amounts are exact as binary floats, so sums are exact and the two       *)
(* decimal places of a formatted value are a real rounding.                *)
(***************************************************************************)
EXTENDS Integers, Sequences, FiniteSets, TLC

\* ------------------------------------------------------------------ bounds

MaxItems == 2

MaxEmployees == 2

\* ------------------------------------------------------------------ units

PT == 127

MM == 360

PageHeight == 297 * MM

Margin == 14 * MM

LineGap == 14 * PT

NoPath == "None"

NoCfg == <<>>

\* ------------------------------------------------------------------ helpers

Get(d, key, default) == IF key \in DOMAIN d THEN d[key] ELSE default

RECURSIVE SumAmounts(_)
SumAmounts(items) ==
  IF items = <<>> THEN 0
  ELSE items[1].amount + SumAmounts(Tail(items))

SeqsUpTo(S, n) == UNION {[1..m -> S] : m \in 0..n}

\* f"{x:.2f}": the decimal nearest to the float's exact value, a tie (an odd
\* number of eighths is a tie of the cents) going to the even cent.
Round2Abs(a) ==
  LET n == 25 * a
  IN IF n % 2 = 0 THEN n \div 2
     ELSE LET lo == (n - 1) \div 2
          IN IF lo % 2 = 0 THEN lo ELSE lo + 1

Round2(a) == IF a < 0 THEN -Round2Abs(-a) ELSE Round2Abs(a)

DigitChars == <<"0", "1", "2", "3", "4", "5", "6", "7", "8", "9">>

\* The decimal digits of a natural number, no leading zero.
RECURSIVE Digits(_)
Digits(n) ==
  IF n < 10 THEN <<DigitChars[n + 1]>>
  ELSE Digits(n \div 10) \o <<DigitChars[(n % 10) + 1]>>

\* The "," of the format: the digits in groups of three from the right.
RECURSIVE Grouped(_)
Grouped(n) ==
  IF n < 1000 THEN Digits(n)
  ELSE Grouped(n \div 1000)
       \o <<",", DigitChars[((n \div 100) % 10) + 1],
                 DigitChars[((n \div 10) % 10) + 1], DigitChars[(n % 10) + 1]>>

\* fmt_currency: f"{sym}{amount:,.2f}", the string as the symbol (None as "")
\* followed by its characters: "-" for a negative float, the grouped integer
\* part, ".", two digits.
fmt_currency(amount, symbol) ==
  LET sym == IF symbol = "None" THEN "" ELSE symbol
      cents == Round2Abs(IF amount < 0 THEN -amount ELSE amount)
  IN <<sym>> \o (IF amount < 0 THEN <<"-">> ELSE <<>>)
     \o Grouped(cents \div 100)
     \o <<".", DigitChars[((cents \div 10) % 10) + 1], DigitChars[(cents % 10) + 1]>>

Op(op, site, text, val, at) ==
  [op |-> op, site |-> site, text |-> text, val |-> val, y |-> at]

\* _sep: one line drawn at y.
_sep(c, site, at) == Append(c, Op("line", site, "", <<>>, at))

\* _section_title: the title at y, its underline, and the cursor below it.
_section_title(c, site, at, title) ==
  [canvas |-> Append(c, Op("title", site, title, <<>>, at)),
   y |-> at - 20 * PT]

\* _line_items, one turn of its loop: the item's row at y, then one line gap.
line_item(c, site, at, it, currency_symbol) ==
  [canvas |-> Append(c, Op("row", site, it.label,
                           fmt_currency(it.amount, currency_symbol), at)),
   y |-> at - LineGap]

\* A totals row of render_pdf: label left, amount right, then one line gap.
total_row(c, site, at, label, amount, currency_symbol) ==
  [canvas |-> Append(c, Op("row", site, label,
                           fmt_currency(amount, currency_symbol), at)),
   y |-> at - LineGap]

\* ------------------------------------------------------------------ state

VARIABLES
  rpc, args, gross, total_deduction, net_pay, y, canvas, sig_drawn, i, result,
  pdf_files,
  mpc, settings, branding, employees, idx, manifest_rows, pdf_paths,
  manifest_file, raised, validations, render_calls,
  ans, eidx, outbox

rvars == <<rpc, args, gross, total_deduction, net_pay, y, canvas, sig_drawn,
           i, result, pdf_files>>

evars == <<ans, eidx, outbox>>

mvars == <<mpc, settings, branding, employees, idx, manifest_rows, pdf_paths,
           manifest_file, raised, validations, render_calls, evars>>

vars == <<rvars, mvars>>

locals == <<gross, total_deduction, net_pay>>

\* ------------------------------------------------------------------ render_pdf

info_rows ==
  <<"EMPLOYEE REFERENCE NO", "NAME", "DESIGNATION", "DEPARTMENT", "MONTH">>

info_value(k) ==
  IF k = 1 THEN Get(args.employee, "ref", "")
  ELSE IF k = 2 THEN Get(args.employee, "name", "")
  ELSE IF k = 3 THEN Get(args.employee, "designation", "")
  ELSE IF k = 4 THEN Get(args.employee, "department", "")
  ELSE "period_display"


\* The cursor kept on the exporter: set for its first page only.
R_Open_KeepsCursor ==
  /\ rpc = "open"
  /\ \E mkdir_ok \in BOOLEAN :
       IF mkdir_ok
       THEN /\ gross' = SumAmounts(args.earnings)
            /\ total_deduction' = SumAmounts(args.deductions)
            /\ net_pay' = SumAmounts(args.earnings) - SumAmounts(args.deductions)
            /\ canvas' = <<>>
            /\ y' = IF render_calls <= 1 THEN PageHeight - Margin ELSE y
            /\ rpc' = "logo"
            /\ UNCHANGED result
       ELSE /\ rpc' = "raised"
            /\ result' = <<"OSError", "mkdir">>
            /\ UNCHANGED <<locals, canvas, y>>
  /\ UNCHANGED <<args, sig_drawn, i, pdf_files, mvars>>

\* Lines 59-72: the output directory is made (an OSError leaves the call),
\* the totals are computed, the canvas is opened, the cursor set.
R_Open ==
  /\ rpc = "open"
  /\ \E mkdir_ok \in BOOLEAN :
       IF mkdir_ok
       THEN /\ gross' = SumAmounts(args.earnings)
            /\ total_deduction' = SumAmounts(args.deductions)
            /\ net_pay' = SumAmounts(args.earnings) - SumAmounts(args.deductions)
            /\ canvas' = <<>>
            /\ y' = PageHeight - Margin
            /\ rpc' = "logo"
            /\ UNCHANGED result
       ELSE /\ rpc' = "raised"
            /\ result' = <<"OSError", "mkdir">>
            /\ UNCHANGED <<locals, canvas, y>>
  /\ UNCHANGED <<args, sig_drawn, i, pdf_files, mvars>>


\* drawImage outside any try: its exception leaves the call.
R_Logo_NoTry ==
  /\ rpc = "logo"
  /\ IF args.logo_path # NoPath
     THEN \E drawn \in BOOLEAN :
            IF drawn
            THEN /\ canvas' = Append(canvas, Op("image", "logo", args.logo_path,
                                                <<>>, PageHeight - 2 * MM - 32 * MM))
                 /\ rpc' = "titles"
                 /\ UNCHANGED result
            ELSE /\ rpc' = "raised"
                 /\ result' = <<"ImageError", "logo">>
                 /\ UNCHANGED canvas
     ELSE /\ rpc' = "titles"
          /\ UNCHANGED <<canvas, result>>
  /\ UNCHANGED <<args, locals, y, sig_drawn, i, pdf_files, mvars>>

\* Lines 91-105: the logo in its fixed box; an exception of drawImage is passed.
R_Logo ==
  /\ rpc = "logo"
  /\ IF args.logo_path # NoPath
     THEN \E drawn \in BOOLEAN :
            canvas' = IF drawn
                      THEN Append(canvas, Op("image", "logo", args.logo_path, <<>>,
                                             PageHeight - 2 * MM - 32 * MM))
                      ELSE canvas
     ELSE canvas' = canvas
  /\ rpc' = "titles"
  /\ UNCHANGED <<args, locals, y, sig_drawn, i, result, pdf_files, mvars>>

\* Lines 107-117: three centred titles at fixed offsets, then the cursor
\* moves below the header block.
R_Titles ==
  /\ rpc = "titles"
  /\ canvas' = canvas \o
       << Op("text", "title1", "company_line1", <<>>, y - 2 * MM),
          Op("text", "title2", "company_line2", <<>>, y - 9 * MM),
          Op("text", "title3", "period_display", <<>>, y - 16 * MM) >>
  /\ y' = y - 22 * MM
  /\ rpc' = "header_sep"
  /\ UNCHANGED <<args, locals, sig_drawn, i, result, pdf_files, mvars>>

\* Lines 118-119.
R_HeaderSep ==
  /\ rpc = "header_sep"
  /\ canvas' = _sep(canvas, "header_sep", y)
  /\ y' = y - 10 * MM
  /\ i' = 1
  /\ rpc' = "info"
  /\ UNCHANGED <<args, locals, sig_drawn, result, pdf_files, mvars>>

\* Lines 134-139: one turn of the loop over info_rows.
R_InfoRow ==
  /\ rpc = "info"
  /\ i <= Len(info_rows)
  /\ canvas' = Append(canvas, Op("row", "info_row", info_rows[i],
                                 <<info_value(i)>>, y))
  /\ y' = y - LineGap
  /\ i' = i + 1
  /\ UNCHANGED <<rpc, args, locals, sig_drawn, result, pdf_files, mvars>>

\* Line 141.
R_InfoGap ==
  /\ rpc = "info"
  /\ i > Len(info_rows)
  /\ y' = y - 2 * MM
  /\ rpc' = "info_sep"
  /\ UNCHANGED <<args, locals, canvas, sig_drawn, i, result, pdf_files, mvars>>

\* Lines 142-143.
R_InfoSep ==
  /\ rpc = "info_sep"
  /\ canvas' = _sep(canvas, "info_sep", y)
  /\ y' = y - 12 * MM
  /\ rpc' = "earnings_title"
  /\ UNCHANGED <<args, locals, sig_drawn, i, result, pdf_files, mvars>>

\* Line 146.
R_EarningsTitle ==
  /\ rpc = "earnings_title"
  /\ LET r == _section_title(canvas, "earnings_title", y, "EARNINGS:")
     IN /\ canvas' = r.canvas
        /\ y' = r.y
  /\ i' = 1
  /\ rpc' = "earnings_items"
  /\ UNCHANGED <<args, locals, sig_drawn, result, pdf_files, mvars>>


\* The items taken from the end of the list.
R_EarningsItem_Reversed ==
  /\ rpc = "earnings_items"
  /\ i <= Len(args.earnings)
  /\ LET r == line_item(canvas, "earnings_item", y,
                        args.earnings[Len(args.earnings) + 1 - i],
                        args.currency_symbol)
     IN /\ canvas' = r.canvas
        /\ y' = r.y
  /\ i' = i + 1
  /\ UNCHANGED <<rpc, args, locals, sig_drawn, result, pdf_files, mvars>>

\* Line 147: one turn of _line_items over earnings.
R_EarningsItem ==
  /\ rpc = "earnings_items"
  /\ i <= Len(args.earnings)
  /\ LET r == line_item(canvas, "earnings_item", y, args.earnings[i],
                        args.currency_symbol)
     IN /\ canvas' = r.canvas
        /\ y' = r.y
  /\ i' = i + 1
  /\ UNCHANGED <<rpc, args, locals, sig_drawn, result, pdf_files, mvars>>

\* Lines 149-152: the gross row, after _line_items has returned.
R_EarningsTotal ==
  /\ rpc = "earnings_items"
  /\ i > Len(args.earnings)
  /\ LET r == total_row(canvas, "gross_total", y,
                        args.totals_labels["gross_income_label"], gross,
                        args.currency_symbol)
     IN /\ canvas' = r.canvas
        /\ y' = r.y
  /\ rpc' = "earnings_gap"
  /\ UNCHANGED <<args, locals, sig_drawn, i, result, pdf_files, mvars>>

\* Line 154.
R_EarningsGap ==
  /\ rpc = "earnings_gap"
  /\ y' = y - 6 * MM
  /\ rpc' = "earnings_sep"
  /\ UNCHANGED <<args, locals, canvas, sig_drawn, i, result, pdf_files, mvars>>

\* Lines 155-156.
R_EarningsSep ==
  /\ rpc = "earnings_sep"
  /\ canvas' = _sep(canvas, "earnings_sep", y)
  /\ y' = y - 12 * MM
  /\ rpc' = "deductions_title"
  /\ UNCHANGED <<args, locals, sig_drawn, i, result, pdf_files, mvars>>

\* Line 159.
R_DeductionsTitle ==
  /\ rpc = "deductions_title"
  /\ LET r == _section_title(canvas, "deductions_title", y, "DEDUCTIONS:")
     IN /\ canvas' = r.canvas
        /\ y' = r.y
  /\ i' = 1
  /\ rpc' = "deductions_items"
  /\ UNCHANGED <<args, locals, sig_drawn, result, pdf_files, mvars>>

\* Line 160: one turn of _line_items over deductions.
R_DeductionsItem ==
  /\ rpc = "deductions_items"
  /\ i <= Len(args.deductions)
  /\ LET r == line_item(canvas, "deductions_item", y, args.deductions[i],
                        args.currency_symbol)
     IN /\ canvas' = r.canvas
        /\ y' = r.y
  /\ i' = i + 1
  /\ UNCHANGED <<rpc, args, locals, sig_drawn, result, pdf_files, mvars>>


\* The total row left out when the list is empty.
R_DeductionsTotal_SkipEmpty ==
  /\ rpc = "deductions_items"
  /\ i > Len(args.deductions)
  /\ LET r == total_row(canvas, "deduction_total", y,
                        args.totals_labels["total_deduction_label"],
                        total_deduction, args.currency_symbol)
     IN IF args.deductions = <<>>
        THEN UNCHANGED <<canvas, y>>
        ELSE /\ canvas' = r.canvas
             /\ y' = r.y
  /\ rpc' = "net_pay_top"
  /\ UNCHANGED <<args, locals, sig_drawn, i, result, pdf_files, mvars>>

\* Lines 162-165: the total deduction row.
R_DeductionsTotal ==
  /\ rpc = "deductions_items"
  /\ i > Len(args.deductions)
  /\ LET r == total_row(canvas, "deduction_total", y,
                        args.totals_labels["total_deduction_label"],
                        total_deduction, args.currency_symbol)
     IN /\ canvas' = r.canvas
        /\ y' = r.y
  /\ rpc' = "net_pay_top"
  /\ UNCHANGED <<args, locals, sig_drawn, i, result, pdf_files, mvars>>

\* Lines 171-175: net_pay_pad is 10 mm.
R_NetPayTop ==
  /\ rpc = "net_pay_top"
  /\ canvas' = _sep(canvas, "net_pay_top_sep", y)
  /\ y' = y - 10 * MM
  /\ rpc' = "net_pay_row"
  /\ UNCHANGED <<args, locals, sig_drawn, i, result, pdf_files, mvars>>

\* Lines 178-181.
R_NetPayRow ==
  /\ rpc = "net_pay_row"
  /\ canvas' = Append(canvas, Op("row", "net_pay_row",
                                 args.totals_labels["net_pay_label"],
                                 fmt_currency(net_pay, args.currency_symbol), y))
  /\ y' = y - 10 * MM
  /\ rpc' = "net_pay_bottom"
  /\ UNCHANGED <<args, locals, sig_drawn, i, result, pdf_files, mvars>>

\* Lines 184-185.
R_NetPayBottom ==
  /\ rpc = "net_pay_bottom"
  /\ canvas' = _sep(canvas, "net_pay_bottom_sep", y)
  /\ y' = y - 10 * MM
  /\ rpc' = "footer_label"
  /\ UNCHANGED <<args, locals, sig_drawn, i, result, pdf_files, mvars>>

\* Line 188: footer_cfg or {}; an absent configuration is the empty one.
footer_of(a) == a.footer_cfg

\* Lines 188-203: the approver label at the cursor, then the signature gap.
R_FooterLabel ==
  /\ rpc = "footer_label"
  /\ canvas' = Append(canvas,
       Op("text", "approved_by_label",
          Get(footer_of(args), "approved_by_label", "Approved By:"), <<>>, y))
  /\ y' = y - Get(footer_of(args), "signature_gap_mm", 4) * MM
  /\ sig_drawn' = FALSE
  /\ rpc' = "signature"
  /\ UNCHANGED <<args, locals, i, result, pdf_files, mvars>>

\* Lines 205-221: the signature below the cursor; an exception of drawImage
\* leaves sig_drawn false.
R_Signature ==
  /\ rpc = "signature"
  /\ IF args.signature_path # NoPath
     THEN \E drawn \in BOOLEAN :
            /\ sig_drawn' = drawn
            /\ canvas' = IF drawn
                         THEN Append(canvas, Op("image", "signature",
                                                args.signature_path, <<>>,
                                                y - 18 * MM))
                         ELSE canvas
     ELSE UNCHANGED <<sig_drawn, canvas>>
  /\ rpc' = "footer_move"
  /\ UNCHANGED <<args, locals, y, i, result, pdf_files, mvars>>


\* The signature height taken off whether or not the signature was drawn.
footer_move_always_height(at, drawn, name_gap_mm) ==
  (at - 18 * MM) - name_gap_mm * MM

\* Lines 224-227: sig_h is 18 mm.
footer_move(at, drawn, name_gap_mm) ==
  IF drawn THEN (at - 18 * MM) - name_gap_mm * MM
  ELSE at - name_gap_mm * MM

R_FooterMove ==
  /\ rpc = "footer_move"
  /\ y' = footer_move(y, sig_drawn, Get(footer_of(args), "name_gap_mm", 3))
  /\ rpc' = "footer_name"
  /\ UNCHANGED <<args, locals, canvas, sig_drawn, i, result, pdf_files, mvars>>

\* Lines 230-237: the printed name when there is one, then the timestamp
\* at half the margin.
R_FooterName ==
  /\ rpc = "footer_name"
  /\ LET name == Get(footer_of(args), "approved_by_name", "")
         stamp == Op("text", "generated_at", "Generated:", <<>>, Margin \div 2)
     IN IF name # ""
        THEN /\ canvas' = canvas \o
                   <<Op("text", "approved_by_name", name, <<>>, y), stamp>>
             /\ y' = y - 10 * PT
        ELSE /\ canvas' = Append(canvas, stamp)
             /\ y' = y
  /\ rpc' = "finish"
  /\ UNCHANGED <<args, locals, sig_drawn, i, result, pdf_files, mvars>>

\* Lines 239-241: showPage, save (an OSError leaves the call), return.
R_Finish ==
  /\ rpc = "finish"
  /\ \E save_ok \in BOOLEAN :
       IF save_ok
       THEN /\ canvas' = canvas \o
                  << Op("showPage", "showPage", "", <<>>, y),
                     Op("save", "save", "", <<>>, y) >>
            /\ pdf_files' = [p \in DOMAIN pdf_files \cup {args.output_pdf_path} |->
                               IF p = args.output_pdf_path THEN args.employee
                               ELSE pdf_files[p]]
            /\ result' = <<"path", args.output_pdf_path>>
            /\ rpc' = "returned"
       ELSE /\ canvas' = Append(canvas, Op("showPage", "showPage", "", <<>>, y))
            /\ result' = <<"OSError", "save">>
            /\ rpc' = "raised"
            /\ UNCHANGED pdf_files
  /\ UNCHANGED <<args, locals, y, sig_drawn, i, mvars>>

Render ==
  \/ R_Open \/ R_Logo \/ R_Titles \/ R_HeaderSep \/ R_InfoRow \/ R_InfoGap
  \/ R_InfoSep \/ R_EarningsTitle \/ R_EarningsItem \/ R_EarningsTotal
  \/ R_EarningsGap \/ R_EarningsSep \/ R_DeductionsTitle \/ R_DeductionsItem
  \/ R_DeductionsTotal \/ R_NetPayTop \/ R_NetPayRow \/ R_NetPayBottom
  \/ R_FooterLabel \/ R_Signature \/ R_FooterMove \/ R_FooterName \/ R_Finish

\* ------------------------------------------------------------------ main

NoError == <<>>

Lower(ext) == IF ext = ".PNG" THEN ".png" ELSE ext

\* validate_asset: the first check that fails, as the exception it raises.
validate_asset(spec) ==
  IF ~spec.path.exists
  THEN <<"FileNotFoundError", spec.label>>
  ELSE IF /\ spec.allowed_extensions # {}
          /\ Lower(spec.path.ext) \notin {Lower(e) : e \in spec.allowed_extensions}
  THEN <<"ValueError: invalid extension", spec.label>>
  ELSE IF spec.enforce_resolution
  THEN IF spec.required_px = <<>>
       THEN <<"ValueError: required_px not set", spec.label>>
       ELSE IF spec.path.px # spec.required_px
       THEN <<"ValueError: resolution", spec.label>>
       ELSE NoError
  ELSE NoError

\* validate_branding_assets: the logo, then the signature.
validate_branding_assets(b) ==
  LET logo == validate_asset(
                [path |-> b.logo, allowed_extensions |-> b.allowed_extensions,
                 enforce_resolution |-> b.enforce_resolution,
                 required_px |-> b.logo_required_px, label |-> "logo"])
      sig == validate_asset(
                [path |-> b.signature, allowed_extensions |-> b.allowed_extensions,
                 enforce_resolution |-> b.enforce_resolution,
                 required_px |-> b.signature_required_px, label |-> "signature"])
  IN IF logo # NoError THEN logo ELSE sig

\* _safe_float: None, a blank string and an unparsable string are 0.0.
_safe_float(v) ==
  IF v.t = "none" THEN 0
  ELSE IF v.t = "blank" THEN 0
  ELSE IF v.t \in {"num", "numstr"} THEN v.v
  ELSE 0

NoneCell == [t |-> "none", v |-> 0]

\* str.strip on the configured labels and column names: a string of
\* whitespace becomes empty, padding around a word is dropped.
StrStrip(s) ==
  CASE s = " " -> ""
    [] s = " allow" -> "allow"
    [] s = " Tax " -> "Tax"
    [] s = " Previous " -> "Previous"
    [] OTHER -> s

\* _build_line_items with a float() that takes only numbers: no string parses.
_build_line_items_NumbersOnly(emp, fields_cfg) ==
  LET kept == SelectSeq(fields_cfg,
                LAMBDA f : /\ StrStrip(Get(f, "label", "")) # ""
                           /\ StrStrip(Get(f, "column", "")) # "")
  IN [n \in 1..Len(kept) |->
        LET c == Get(emp.raw, StrStrip(kept[n].column), NoneCell)
        IN [label |-> StrStrip(kept[n].label),
            amount |-> IF c.t = "num" THEN c.v ELSE 0]]

\* _build_line_items: one item per field with a label and a column.
RECURSIVE _build_line_items(_, _)
_build_line_items(emp, fields_cfg) ==
  IF fields_cfg = <<>> THEN <<>>
  ELSE LET f == fields_cfg[1]
           label == StrStrip(Get(f, "label", ""))
           col == StrStrip(Get(f, "column", ""))
           rest == _build_line_items(emp, Tail(fields_cfg))
       IN IF label = "" \/ col = ""
          THEN rest
          ELSE <<[label |-> label,
                  amount |-> _safe_float(Get(emp.raw, col, NoneCell))]>>
               \o rest

IsSpace(ch) == ch \in {" ", "\t", "\n", "\r"}

RECURSIVE LStrip(_)
LStrip(s) == IF s # <<>> /\ IsSpace(s[1]) THEN LStrip(Tail(s)) ELSE s

RECURSIVE RStrip(_)
RStrip(s) ==
  IF s # <<>> /\ IsSpace(s[Len(s)]) THEN RStrip(SubSeq(s, 1, Len(s) - 1)) ELSE s

Unsafe == {"/", "\\", ":", "*", "?", "\"", "<", ">", "|", "\n", "\r", "\t"}

\* " ".join(s.split()): runs of whitespace become one space, none at the ends.
RECURSIVE JoinSplit(_)
JoinSplit(s) ==
  LET t == LStrip(s)
  IN IF t = <<>> THEN <<>>
     ELSE IF IsSpace(t[1]) THEN JoinSplit(Tail(t))
     ELSE IF Len(t) > 1 /\ IsSpace(t[2])
          THEN LET r == JoinSplit(Tail(t))
               IN IF r = <<>> THEN <<t[1]>> ELSE <<t[1], " ">> \o r
          ELSE <<t[1]>> \o JoinSplit(Tail(t))

\* _sanitise_filename_part.
_sanitise_filename_part(s) ==
  LET t == RStrip(LStrip(s))
      u == [k \in 1..Len(t) |-> IF t[k] \in Unsafe THEN "-" ELSE t[k]]
  IN JoinSplit(u)

\* Lines 149-151: ref, the safe name with "_" for " ", the period id.
out_pdf(emp) ==
  LET n == _sanitise_filename_part(emp.name)
  IN <<emp.ref, [k \in 1..Len(n) |-> IF n[k] = " " THEN "_" ELSE n[k]],
       "period_id">>

LabelKeys == {"gross_income_label", "total_deduction_label", "net_pay_label"}

DefaultLabel(k) ==
  IF k = "gross_income_label" THEN "GROSS INCOME LABEL"
  ELSE IF k = "total_deduction_label" THEN "TOTAL DEDUCTION LABEL"
  ELSE "NET PAY LABEL"

\* Lines 129-131: a missing label defaults from its key.
totals_labels(s) ==
  [k \in LabelKeys |-> Get(s.pdf.totals_labels, k, DefaultLabel(k))]


\* The validation error logged and the run going on.
M_Validate_Swallowed ==
  /\ mpc = "validate"
  /\ validations' = validations + 1
  /\ mpc' = "loop"
  /\ UNCHANGED <<evars, rvars, settings, branding, employees, idx, manifest_rows,
                 pdf_paths, manifest_file, raised, render_calls>>

\* Lines 91-103: validation of the branding assets, outside any try.
M_Validate ==
  /\ mpc = "validate"
  /\ validations' = validations + 1
  /\ LET e == validate_branding_assets(branding)
     IN IF e # NoError
        THEN /\ raised' = e
             /\ mpc' = "aborted"
        ELSE /\ mpc' = "loop"
             /\ UNCHANGED raised
  /\ UNCHANGED <<evars, rvars, settings, branding, employees, idx, manifest_rows,
                 pdf_paths, manifest_file, render_calls>>

\* Lines 144-171: the next employee; its items, its path, the call.
M_NextEmployee ==
  /\ mpc = "loop"
  /\ idx < Len(employees)
  /\ idx' = idx + 1
  /\ LET emp == employees[idx + 1]
     IN args' = [output_pdf_path |-> out_pdf(emp),
                 employee |-> [ref |-> emp.ref, name |-> emp.name,
                               designation |-> emp.designation,
                               department |-> emp.department],
                 earnings |-> _build_line_items(emp, settings.fields.earnings),
                 deductions |-> _build_line_items(emp, settings.fields.deductions),
                 totals_labels |-> totals_labels(settings),
                 logo_path |-> "logo_path",
                 signature_path |-> "signature_path",
                 currency_symbol |-> settings.company.currency_symbol,
                 footer_cfg |-> settings.footer]
  /\ rpc' = "open"
  /\ render_calls' = render_calls + 1
  /\ mpc' = "render"
  /\ UNCHANGED <<evars, locals, y, canvas, sig_drawn, i, result, pdf_files, settings,
                 branding, employees, manifest_rows, pdf_paths, manifest_file,
                 raised, validations>>


\* The net pay taken as the sum instead of the difference.
generated_row_net_added(emp, earnings_items, deduction_items) ==
  LET g == SumAmounts(earnings_items)
      d == SumAmounts(deduction_items)
      n == g + d
  IN [employee_ref |-> emp.ref, name |-> emp.name, email |-> emp.email,
      pdf_path |-> out_pdf(emp),
      gross_income |-> <<Round2(g)>>,
      total_deductions |-> <<Round2(d)>>,
      net_pay |-> <<Round2(n)>>,
      status |-> <<"generated">>]

\* Lines 173-192: the totals again from the items, the row of a success.
generated_row(emp, earnings_items, deduction_items) ==
  LET g == SumAmounts(earnings_items)
      d == SumAmounts(deduction_items)
      n == g - d
  IN [employee_ref |-> emp.ref, name |-> emp.name, email |-> emp.email,
      pdf_path |-> out_pdf(emp),
      gross_income |-> <<Round2(g)>>,
      total_deductions |-> <<Round2(d)>>,
      net_pay |-> <<Round2(n)>>,
      status |-> <<"generated">>]

M_Record ==
  /\ mpc = "render"
  /\ rpc = "returned"
  /\ LET emp == employees[idx]
     IN /\ pdf_paths' = Append(pdf_paths, out_pdf(emp))
        /\ manifest_rows' = Append(manifest_rows,
             generated_row(emp, args.earnings, args.deductions))
  /\ mpc' = "loop"
  /\ rpc' = "idle"
  /\ UNCHANGED <<evars, args, locals, y, canvas, sig_drawn, i, result, pdf_files,
                 settings, branding, employees, idx, manifest_file, raised,
                 validations, render_calls>>

\* Lines 196-209: the row of a failure.
error_row(emp, e) ==
  [employee_ref |-> emp.ref, name |-> emp.name, email |-> emp.email,
   pdf_path |-> <<>>, gross_income |-> <<>>, total_deductions |-> <<>>,
   net_pay |-> <<>>, status |-> <<"error: ">> \o e]


\* The exception raised again whatever fail_fast says.
M_Except_AlwaysRaise ==
  /\ mpc = "render"
  /\ rpc = "raised"
  /\ manifest_rows' = Append(manifest_rows, error_row(employees[idx], result))
  /\ raised' = result
  /\ mpc' = "aborted"
  /\ rpc' = "idle"
  /\ UNCHANGED <<evars, args, locals, y, canvas, sig_drawn, i, result, pdf_files,
                 settings, branding, employees, idx, pdf_paths, manifest_file,
                 validations, render_calls>>

\* Lines 194-211: the exception of this employee, recorded; raised again
\* when fail_fast is set.
M_Except ==
  /\ mpc = "render"
  /\ rpc = "raised"
  /\ manifest_rows' = Append(manifest_rows, error_row(employees[idx], result))
  /\ IF settings.run.fail_fast
     THEN /\ raised' = result
          /\ mpc' = "aborted"
     ELSE /\ mpc' = "loop"
          /\ UNCHANGED raised
  /\ rpc' = "idle"
  /\ UNCHANGED <<evars, args, locals, y, canvas, sig_drawn, i, result, pdf_files,
                 settings, branding, employees, idx, pdf_paths, manifest_file,
                 validations, render_calls>>

\* Lines 213-219: after the loop, the manifest file.
M_WriteManifest ==
  /\ mpc = "loop"
  /\ idx = Len(employees)
  /\ manifest_file' = <<"written", manifest_rows>>
  /\ mpc' = "email"
  /\ UNCHANGED <<evars, rvars, settings, branding, employees, idx, manifest_rows,
                 pdf_paths, raised, validations, render_calls>>

\* str.lower on the answers and modes that occur.
StrLower(s) ==
  CASE s = "Yes" -> "yes"
    [] s = "Previous" -> "previous"
    [] s = "MANUAL" -> "manual"
    [] s = "Send" -> "send"
    [] OTHER -> s

\* What the operator may type at the approval prompt.
Answers == {"y", "Yes", "n", ""}

\* Lines 221-234: the email configuration, the approval gate; main returns
\* when emailing is off or the answer is not y or yes.
M_EmailGate ==
  /\ mpc = "email"
  /\ \E typed \in Answers :
       LET email_cfg == Get(settings, "email", NoCfg)
           enabled == Get(email_cfg, "enabled", FALSE)
           gate == Get(settings.run, "approval_gate_before_email", TRUE)
       IN /\ ans' = IF enabled /\ gate THEN StrLower(typed) ELSE ans
          /\ mpc' = IF ~enabled THEN "done"
                    ELSE IF gate /\ ans' \notin {"y", "yes"} THEN "done"
                    ELSE "send"
  /\ UNCHANGED <<rvars, settings, branding, employees, idx, manifest_rows,
                 pdf_paths, manifest_file, raised, validations, render_calls,
                 eidx, outbox>>

\* send_or_display_via_outlook: the exception it raises, or what it does
\* with the mail; outlook_ok is whether Outlook automation is available.
send_or_display_via_outlook(req, mode, outlook_ok) ==
  IF ~outlook_ok THEN <<"RuntimeError">>
  ELSE IF req.to = "" THEN <<"ValueError">>
  ELSE IF req.attachment_path \notin DOMAIN pdf_files
  THEN <<"FileNotFoundError">>
  ELSE IF StrLower(mode) = "send" THEN <<"Send">>
  ELSE <<"Display">>

\* The mail also made for a row that has no pdf_path.
M_EmailNext_NoSkip ==
  /\ mpc = "send"
  /\ eidx < Len(employees) /\ eidx < Len(manifest_rows)
  /\ eidx' = eidx + 1
  /\ LET emp == employees[eidx + 1]
         row == manifest_rows[eidx + 1]
         req == [to |-> emp.email, subject |-> emp.name,
                 attachment_path |-> row.pdf_path]
     IN /\ outbox' = Append(outbox, [req |-> req, how |-> "Display"])
        /\ mpc' = "send"
        /\ UNCHANGED raised
  /\ UNCHANGED <<rvars, settings, branding, employees, idx, manifest_rows,
                 pdf_paths, manifest_file, validations, render_calls, ans>>

\* Lines 236-247: one turn of the loop over zip(employees, manifest_rows):
\* a row without pdf_path is passed over, another gets one mail, to
\* emp.email, with the row's pdf_path attached; an exception of the sender
\* leaves main.
M_EmailNext ==
  /\ mpc = "send"
  /\ eidx < Len(employees) /\ eidx < Len(manifest_rows)
  /\ eidx' = eidx + 1
  /\ LET emp == employees[eidx + 1]
         row == manifest_rows[eidx + 1]
         mode == Get(Get(settings, "email", NoCfg), "mode", "display")
         req == [to |-> emp.email, subject |-> emp.name,
                 attachment_path |-> row.pdf_path]
     IN IF row.pdf_path = <<>>
        THEN /\ mpc' = "send"
             /\ UNCHANGED <<outbox, raised>>
        ELSE \E outlook_ok \in BOOLEAN :
               LET r == send_or_display_via_outlook(req, mode, outlook_ok)
               IN IF r[1] \in {"Send", "Display"}
                  THEN /\ outbox' = Append(outbox, [req |-> req, how |-> r[1]])
                       /\ mpc' = "send"
                       /\ UNCHANGED raised
                  ELSE /\ raised' = r
                       /\ mpc' = "email_raised"
                       /\ UNCHANGED outbox
  /\ UNCHANGED <<rvars, settings, branding, employees, idx, manifest_rows,
                 pdf_paths, manifest_file, validations, render_calls, ans>>

\* Lines 249-251: the loop over the pairs is over, main returns.
M_EmailDone ==
  /\ mpc = "send"
  /\ ~(eidx < Len(employees) /\ eidx < Len(manifest_rows))
  /\ mpc' = "done"
  /\ UNCHANGED <<rvars, settings, branding, employees, idx, manifest_rows,
                 pdf_paths, manifest_file, raised, validations, render_calls,
                 evars>>

Main ==
  \/ M_Validate \/ M_NextEmployee \/ M_Record \/ M_Except \/ M_WriteManifest
  \/ M_EmailGate \/ M_EmailNext \/ M_EmailDone

\* ------------------------------------------------------------------ inputs

Cell(t, v) == [t |-> t, v |-> v]

EmployeeRows ==
  { [ref |-> "E1", name |-> <<"a", " ", "b">>, designation |-> "Clerk",
     department |-> "Ops", email |-> "a@x",
     raw |-> [basic |-> Cell("num", 801), allow |-> Cell("none", 0),
              tax |-> Cell("numstr", 40)]],
    [ref |-> "E2", name |-> <<" ", "c", "/", "d">>, designation |-> "Lead",
     department |-> "Ops", email |-> "",
     raw |-> [basic |-> Cell("text", 0), allow |-> Cell("num", 3),
              tax |-> Cell("blank", 0)]],
    [ref |-> "E1", name |-> <<"a", "_", "b">>, designation |-> "Lead",
     department |-> "Sales", email |-> "c@x",
     raw |-> [basic |-> Cell("numstr", 16), tax |-> Cell("num", 1)]] }

\* load_employee_payroll_rows returns at least one row or raises.
EmployeeLists == SeqsUpTo(EmployeeRows, MaxEmployees) \ {<<>>}

Fields ==
  [earnings |-> << [label |-> "Basic", column |-> "basic"],
                   [label |-> "", column |-> "ignored"],
                   [label |-> " ", column |-> "basic"],
                   [label |-> "Allowance", column |-> " allow"],
                   [label |-> "Bonus"] >>,
   deductions |-> << [label |-> " Tax ", column |-> "tax"] >>]

CustomFooter ==
  [approved_by_label |-> "Authorised:", approved_by_name |-> "HR Lead",
   signature_gap_mm |-> 6, name_gap_mm |-> 0]

\* Footer configurations render_pdf takes: float() accepts any number.
RenderFooterCfgs ==
  { NoCfg, CustomFooter,
    [approved_by_name |-> "HR Lead", signature_gap_mm |-> -5],
    [name_gap_mm |-> -2] }

Profiles ==
  { [footer |-> NoCfg, totals_labels |-> NoCfg, email |-> NoCfg,
     gate_off |-> FALSE],
    [footer |-> CustomFooter, totals_labels |-> [net_pay_label |-> "Net Pay"],
     email |-> [enabled |-> TRUE], gate_off |-> FALSE],
    [footer |-> NoCfg, totals_labels |-> NoCfg,
     email |-> [enabled |-> TRUE, mode |-> "Send"], gate_off |-> TRUE] }

SettingsSet ==
  { [run |-> IF p.gate_off
             THEN [fail_fast |-> ff, approval_gate_before_email |-> FALSE]
             ELSE [fail_fast |-> ff],
     footer |-> p.footer, fields |-> Fields,
     pdf |-> [totals_labels |-> p.totals_labels],
     company |-> [currency_symbol |-> "NGN "],
     email |-> p.email] :
      ff \in BOOLEAN, p \in Profiles }

File(exists, ext, px) == [exists |-> exists, ext |-> ext, px |-> px]

GoodLogo == File(TRUE, ".PNG", <<600, 320>>)

GoodSig == File(TRUE, ".jpg", <<450, 180>>)

Exts == {".png", ".jpg", ".jpeg"}

Branding(enf, lpx, spx, logo, sig) ==
  [allowed_extensions |-> Exts, enforce_resolution |-> enf,
   logo_required_px |-> lpx, signature_required_px |-> spx,
   logo |-> logo, signature |-> sig]

BrandingCases ==
  { Branding(FALSE, <<>>, <<>>, GoodLogo, GoodSig),
    Branding(TRUE, <<600, 320>>, <<450, 180>>, GoodLogo, GoodSig),
    Branding(FALSE, <<>>, <<>>, File(FALSE, ".png", <<0, 0>>), GoodSig),
    Branding(FALSE, <<>>, <<>>, GoodLogo, File(FALSE, ".png", <<0, 0>>)),
    Branding(FALSE, <<>>, <<>>, File(TRUE, ".gif", <<600, 320>>), GoodSig),
    Branding(TRUE, <<600, 320>>, <<>>, GoodLogo, GoodSig),
    Branding(TRUE, <<600, 320>>, <<450, 180>>, GoodLogo,
             File(TRUE, ".png", <<90, 90>>)) }

EarningsPool ==
  {[label |-> "Basic", amount |-> 801], [label |-> "Bonus", amount |-> -3]}

DeductionsPool ==
  {[label |-> "Tax", amount |-> 40], [label |-> "Loan", amount |-> 5]}

RenderInputs ==
  { [output_pdf_path |-> <<"E0", <<"x">>, "period_id">>,
     employee |-> [ref |-> "E0", name |-> <<"x">>, designation |-> "Clerk",
                   department |-> "Ops"],
     earnings |-> e, deductions |-> d,
     totals_labels |-> [k \in LabelKeys |-> DefaultLabel(k)],
     logo_path |-> lp, signature_path |-> sp,
     currency_symbol |-> "NGN ", footer_cfg |-> f] :
      e \in SeqsUpTo(EarningsPool, MaxItems),
      d \in SeqsUpTo(DeductionsPool, MaxItems),
      lp \in {NoPath, "logo_path"},
      sp \in {NoPath, "signature_path"},
      f \in RenderFooterCfgs }

NoArgs == <<>>

\* ------------------------------------------------------------------ specifications


MaxAmount == 100

\* Amounts fmt_currency is called on, in eighths: every multiple of 1/8 up
\* to MaxAmount eighths either side of zero, and 1,000.125 and 1,234,567.5.
FormatAmounts == (-MaxAmount..MaxAmount) \cup {8001, -8001, 9876540}

FormatInputs ==
  [amount : FormatAmounts, symbol : {"None", "", "NGN ", "£", "$"}]


Modes ==
  {"manual", "MANUAL", "auto_current_month", "current", "auto_current",
   "auto_previous_month", "previous", "auto_previous", " Previous ",
   "weekly", "", "None"}

\* Reference dates of the configuration: "" as <<>>, a YYYY-MM-DD string as
\* its three numbers, any other text as itself.
ReferenceDates ==
  {<<>>, <<"soon">>}
    \cup {<<yr, mo, dy>> : yr \in {1, 2024, 2025}, mo \in 0..13, dy \in {1, 29, 31}}

\* Days date.today() may return.
Todays == {<<2026, 1, 5>>, <<2026, 11, 3>>}

PeriodInputs ==
  [period_mode : Modes, manual_year : {2026}, manual_month : {0, 7, 13},
   reference_date : ReferenceDates, today : Todays]

InitLocals ==
  /\ gross = 0
  /\ total_deduction = 0
  /\ net_pay = 0
  /\ y = 0
  /\ canvas = <<>>
  /\ sig_drawn = FALSE
  /\ i = 0
  /\ result = <<>>
  /\ pdf_files = <<>>

InitRun ==
  /\ idx = 0
  /\ manifest_rows = <<>>
  /\ pdf_paths = <<>>
  /\ manifest_file = <<"absent">>
  /\ raised = NoError
  /\ validations = 0
  /\ render_calls = 0
  /\ ans = "None"
  /\ eidx = 0
  /\ outbox = <<>>

\* One run of main, from the validation of the branding assets on.
Init ==
  /\ InitLocals
  /\ InitRun
  /\ rpc = "idle"
  /\ args = NoArgs
  /\ mpc = "validate"
  /\ settings \in SettingsSet
  /\ branding \in BrandingCases
  /\ employees \in EmployeeLists

Next == Main \/ Render


\* ------------------------------------------------------------------ fmt_currency alone

\* Lines 19-22: one call of fmt_currency on args.
fmt_currency_call ==
  /\ mpc = "fmt_currency"
  /\ result' = fmt_currency(args.amount, args.symbol)
  /\ mpc' = "formatted"
  /\ UNCHANGED <<evars, rpc, args, locals, y, canvas, sig_drawn, i, pdf_files,
                 settings, branding, employees, idx, manifest_rows, pdf_paths,
                 manifest_file, raised, validations, render_calls>>

InitFormat ==
  /\ InitLocals
  /\ InitRun
  /\ rpc = "idle"
  /\ args \in FormatInputs
  /\ mpc = "fmt_currency"
  /\ settings = NoCfg
  /\ branding = NoCfg
  /\ employees = <<>>

SpecFormat == InitFormat /\ [][fmt_currency_call]_vars


\* ------------------------------------------------------------------ resolve_period alone

PayrollPeriod(year, month) == <<"PayrollPeriod", year, month>>

IsLeap(year) == year % 4 = 0 /\ (year % 100 # 0 \/ year % 400 = 0)

DaysIn(year, month) ==
  IF month = 2 THEN (IF IsLeap(year) THEN 29 ELSE 28)
  ELSE IF month \in {4, 6, 9, 11} THEN 30
  ELSE 31

\* datetime.strptime(s, "%Y-%m-%d"): a date of the calendar, or ValueError.
strptime(s) ==
  IF /\ Len(s) = 3
     /\ s[1] \in 1..9999
     /\ s[2] \in 1..12
     /\ s[3] \in 1..DaysIn(s[1], s[2])
  THEN s
  ELSE <<"ValueError">>

\* resolve_period with the previous month taken without the wrap of January.
resolve_period_NoWrap(period_mode, manual_year, manual_month, reference_date, today) ==
  LET ref == IF reference_date # <<>> THEN strptime(reference_date) ELSE today
      mode == StrLower(StrStrip(period_mode))
  IN IF ref = <<"ValueError">> THEN <<"ValueError", "reference_date">>
     ELSE IF mode = "manual" THEN PayrollPeriod(manual_year, manual_month)
     ELSE IF mode \in {"auto_current_month", "current", "auto_current"}
     THEN PayrollPeriod(ref[1], ref[2])
     ELSE IF mode \in {"auto_previous_month", "previous", "auto_previous"}
     THEN PayrollPeriod(ref[1], ref[2] - 1)
     ELSE <<"ValueError", "period_mode">>

\* resolve_period: the period, or the ValueError it raises; today is the
\* day date.today() returns.
resolve_period(period_mode, manual_year, manual_month, reference_date, today) ==
  LET ref == IF reference_date # <<>> THEN strptime(reference_date) ELSE today
      mode == StrLower(StrStrip(period_mode))
  IN IF ref = <<"ValueError">> THEN <<"ValueError", "reference_date">>
     ELSE IF mode = "manual" THEN PayrollPeriod(manual_year, manual_month)
     ELSE IF mode \in {"auto_current_month", "current", "auto_current"}
     THEN PayrollPeriod(ref[1], ref[2])
     ELSE IF mode \in {"auto_previous_month", "previous", "auto_previous"}
     THEN (IF ref[2] - 1 = 0
           THEN PayrollPeriod(ref[1] - 1, 12)
           ELSE PayrollPeriod(ref[1], ref[2] - 1))
     ELSE <<"ValueError", "period_mode">>

\* Lines 25-55: one call of resolve_period on args.
resolve_period_call ==
  /\ mpc = "resolve_period"
  /\ result' = resolve_period(args.period_mode, args.manual_year,
                              args.manual_month, args.reference_date,
                              args.today)
  /\ mpc' = IF result'[1] = "ValueError" THEN "raised" ELSE "returned"
  /\ UNCHANGED <<rpc, args, locals, y, canvas, sig_drawn, i, pdf_files,
                 settings, branding, employees, idx, manifest_rows, pdf_paths,
                 manifest_file, raised, validations, render_calls, evars>>

InitPeriod ==
  /\ InitLocals
  /\ InitRun
  /\ rpc = "idle"
  /\ args \in PeriodInputs
  /\ mpc = "resolve_period"
  /\ settings = NoCfg
  /\ branding = NoCfg
  /\ employees = <<>>

SpecPeriod == InitPeriod /\ [][resolve_period_call]_vars

Spec == Init /\ [][Next]_vars

\* One call of render_pdf on any input, outside a run.
InitRender ==
  /\ InitLocals
  /\ InitRun
  /\ rpc = "open"
  /\ args \in RenderInputs
  /\ mpc = "direct"
  /\ settings = NoCfg
  /\ branding = NoCfg
  /\ employees = <<>>

SpecRender == InitRender /\ [][Render]_vars

\* ------------------------------------------------------------------ reading a page

DigitValue(ch) == CHOOSE d \in 0..9 : DigitChars[d + 1] = ch

RECURSIVE DigitsValue(_)
DigitsValue(s) ==
  IF s = <<>> THEN 0
  ELSE 10 * DigitsValue(SubSeq(s, 1, Len(s) - 1)) + DigitValue(s[Len(s)])

IsDigit(ch) == \E d \in 1..10 : DigitChars[d] = ch

\* The amount a drawn currency string shows, in cents.
AmountShown(t) ==
  LET n == DigitsValue(SelectSeq(Tail(t), IsDigit))
  IN IF Len(t) > 1 /\ t[2] = "-" THEN -n ELSE n

Sites(c) == {c[k].site : k \in 1..Len(c)}

At(c, site) == CHOOSE k \in 1..Len(c) : c[k].site = site

Count(c, site) == Cardinality({k \in 1..Len(c) : c[k].site = site})

IsPrefix(s, t) == Len(s) <= Len(t) /\ SubSeq(t, 1, Len(s)) = s

SectionOrder ==
  <<"Header", "EmployeeInfo", "Earnings", "EarningsTotal", "Separator",
    "Deductions", "DeductionsTotal", "Separator", "NetPay", "Separator",
    "Footer", "Done">>

SectionOf(site) ==
  IF site \in {"logo", "title1", "title2", "title3", "header_sep"} THEN "Header"
  ELSE IF site \in {"info_row", "info_sep"} THEN "EmployeeInfo"
  ELSE IF site \in {"earnings_title", "earnings_item"} THEN "Earnings"
  ELSE IF site = "gross_total" THEN "EarningsTotal"
  ELSE IF site \in {"earnings_sep", "net_pay_top_sep", "net_pay_bottom_sep"}
       THEN "Separator"
  ELSE IF site \in {"deductions_title", "deductions_item"} THEN "Deductions"
  ELSE IF site = "deduction_total" THEN "DeductionsTotal"
  ELSE IF site = "net_pay_row" THEN "NetPay"
  ELSE IF site \in {"approved_by_label", "signature", "approved_by_name",
                    "generated_at"} THEN "Footer"
  ELSE "Done"

\* The sections a page's drawing operations enter, in the order drawn.
RECURSIVE Sections(_)
Sections(c) ==
  IF c = <<>> THEN <<>>
  ELSE LET before == Sections(SubSeq(c, 1, Len(c) - 1))
           last == SectionOf(c[Len(c)].site)
       IN IF Len(c) > 1 /\ SectionOf(c[Len(c) - 1].site) = last
          THEN before
          ELSE Append(before, last)

InCall == rpc \notin {"idle", "open"}

\* ------------------------------------------------------------------ claims

\* C1: in every render_pdf call the sections are entered in the fixed order
\* Header, EmployeeInfo, Earnings, EarningsTotal, Separator, Deductions,
\* DeductionsTotal, Separator, NetPay, Separator, Footer, Done: what has been
\* drawn so far is always a beginning of that order (no section skipped,
\* repeated or returned to), and a call that returns has entered all of them.
C1_SectionOrder ==
  InCall =>
    /\ IsPrefix(Sections(canvas), SectionOrder)
    /\ rpc = "returned" => Sections(canvas) = SectionOrder

C1_Witness ==
  /\ rpc = "returned"
  /\ args.earnings = <<>>
  /\ Len(args.deductions) = 2
  /\ args.logo_path = NoPath
  /\ "signature" \in Sites(canvas)

\* C2: within one render_pdf call the cursor y never increases: every step
\* after the cursor is set leaves it less than or equal to what it was.
C2_CursorNeverIncreases == [][rpc # "open" => y' <= y]_vars

\* C3: for a document recorded as 'generated', the gross, total deduction and
\* net pay drawn on its page and written to its manifest row are the same
\* three numbers, and they are the sum of the earnings, the sum of the
\* deductions and their difference, of the items passed to render_pdf.
C3_TotalsAgree ==
  (/\ mpc = "loop"
   /\ idx > 0
   /\ Len(manifest_rows) = idx
   /\ manifest_rows[idx].status[1] = "generated")
  => LET row == manifest_rows[idx]
         g == SumAmounts(args.earnings)
         d == SumAmounts(args.deductions)
     IN /\ row.gross_income
             = <<AmountShown(canvas[At(canvas, "gross_total")].val)>>
        /\ row.total_deductions
             = <<AmountShown(canvas[At(canvas, "deduction_total")].val)>>
        /\ row.net_pay
             = <<AmountShown(canvas[At(canvas, "net_pay_row")].val)>>
        /\ row.gross_income = <<Round2(g)>>
        /\ row.total_deductions = <<Round2(d)>>
        /\ row.net_pay = <<Round2(g - d)>>

C3_Witness ==
  /\ mpc = "loop"
  /\ idx = 2
  /\ Len(manifest_rows) = 2
  /\ manifest_rows[2].status[1] = "generated"
  /\ manifest_rows[2].gross_income = <<10012>>
  /\ manifest_rows[2].net_pay = <<9512>>

\* C4: when a branding asset fails validation, the error is recorded on the
\* employee's manifest row and the whole run aborts only when fail_fast is
\* true (with fail_fast false the run goes on to the next employee).
C4_AssetFailurePerDocument ==
  LET e == validate_branding_assets(branding)
  IN (mpc # "validate" /\ e # NoError) =>
       /\ mpc = "aborted" => settings.run.fail_fast
       /\ mpc \in {"aborted", "done"} =>
            \E k \in 1..Len(manifest_rows) :
               manifest_rows[k].status = <<"error: ">> \o e

\* C5: every employee whose generation was attempted has its outcome in the
\* manifest file the run writes: one row per attempted employee, in
\* processing order, 'generated' or 'error: <message>', fail_fast or not.
C5_ManifestHoldsEveryOutcome ==
  (mpc \in {"done", "aborted"} /\ idx > 0) =>
    /\ manifest_file[1] = "written"
    /\ Len(manifest_file[2]) = idx
    /\ \A k \in 1..idx :
         /\ manifest_file[2][k].employee_ref = employees[k].ref
         /\ manifest_file[2][k].status[1] \in {"generated", "error: "}

\* The generation of employee idx has ended by raising.
Raised ==
  /\ idx > 0
  /\ mpc \in {"loop", "aborted", "done"}
  /\ result # <<>>
  /\ result[1] = "OSError"

\* C6: if generating one employee's payslip raises, then with fail_fast false
\* an 'error: <message>' row with empty pdf_path and empty totals is appended
\* for that employee and the remaining employees are still processed; with
\* fail_fast true the exception is raised again and no later employee is
\* processed.
C6_ErrorRowAndPropagation ==
  /\ \A k \in 1..Len(manifest_rows) :
       manifest_rows[k].status[1] = "error: " =>
         /\ manifest_rows[k].employee_ref = employees[k].ref
         /\ manifest_rows[k].pdf_path = <<>>
         /\ manifest_rows[k].gross_income = <<>>
         /\ manifest_rows[k].total_deductions = <<>>
         /\ manifest_rows[k].net_pay = <<>>
  /\ Raised =>
       /\ Len(manifest_rows) = idx
       /\ manifest_rows[idx].status = <<"error: ">> \o result
       /\ IF settings.run.fail_fast
          THEN /\ mpc = "aborted"
               /\ raised = result
               /\ render_calls = idx
               /\ ~ENABLED Next
          ELSE /\ mpc # "aborted"
               /\ raised = NoError
               /\ (mpc = "loop" /\ idx < Len(employees)) => ENABLED M_NextEmployee
               /\ mpc = "done" => /\ idx = Len(employees)
                                  /\ Len(manifest_rows) = Len(employees)

C6_Witness ==
  /\ mpc = "done"
  /\ ~settings.run.fail_fast
  /\ Len(manifest_rows) = 2
  /\ manifest_rows[1].status = <<"error: ", "OSError", "save">>
  /\ manifest_rows[2].status[1] = "generated"

\* C7: branding validation runs once per run and has succeeded before the
\* first render_pdf call; if the validation of the logo or of the signature
\* raises, no render_pdf call is made and no PDF is written.
C7_ValidationBeforeRender ==
  /\ validations <= 1
  /\ render_calls > 0 =>
       /\ validations = 1
       /\ validate_branding_assets(branding) = NoError
  /\ validate_branding_assets(branding) # NoError =>
       /\ render_calls = 0
       /\ rpc = "idle"
       /\ DOMAIN pdf_files = {}
       /\ mpc \in {"validate", "aborted"}

C7_Witness ==
  /\ validations = 1
  /\ branding.enforce_resolution
  /\ render_calls = 2
  /\ Cardinality(DOMAIN pdf_files) = 2

\* C8: a logo or signature that is not embedded (no path, or drawImage
\* raising) never ends the render: the call goes on through every section,
\* ends one page with one showPage followed by one save, and returns the
\* output path.
C8_EmbedFailureNotFatal ==
  /\ rpc \notin {"idle", "returned", "raised"} => ENABLED Render
  /\ rpc = "raised" => result[1] = "OSError"
  /\ rpc = "returned" =>
       /\ Sections(canvas) = SectionOrder
       /\ Count(canvas, "showPage") = 1
       /\ Count(canvas, "save") = 1
       /\ canvas[Len(canvas) - 1].op = "showPage"
       /\ canvas[Len(canvas)].op = "save"
       /\ result = <<"path", args.output_pdf_path>>
       /\ args.output_pdf_path \in DOMAIN pdf_files

C8_Witness ==
  /\ rpc = "returned"
  /\ args.logo_path # NoPath
  /\ "logo" \notin Sites(canvas)
  /\ args.signature_path # NoPath
  /\ "signature" \notin Sites(canvas)

LabelY == canvas[At(canvas, "approved_by_label")].y

SigHeight == IF "signature" \in Sites(canvas) THEN 18 * MM ELSE 0

\* C9 as claimed: from the approver label to the printed name the cursor
\* advances by the name gap only when no signature is drawn, and by the
\* name gap and the signature height when it is drawn.
C9_NameGapOnly ==
  rpc = "footer_name" =>
    LabelY - y = Get(args.footer_cfg, "name_gap_mm", 3) * MM + SigHeight

\* C9 as amended: from the approver label to the printed name the cursor
\* advances by the signature gap plus the name gap when no signature is
\* drawn (no path, or drawImage raising), the signature height not added;
\* when the signature is drawn the advance includes the signature height too.
C9_SignatureGapAndNameGap ==
  rpc = "footer_name" =>
    LabelY - y = Get(args.footer_cfg, "signature_gap_mm", 4) * MM
                 + Get(args.footer_cfg, "name_gap_mm", 3) * MM + SigHeight

C9_Witness ==
  /\ rpc = "footer_name"
  /\ args.signature_path = NoPath
  /\ args.footer_cfg = CustomFooter
  /\ LabelY - y = 6 * MM

RowsOk(c, title, item, total, items, label, sym) ==
  total \in Sites(c) =>
    LET t == At(c, title)
        g == At(c, total)
        n == Len(items)
    IN /\ g = t + n + 1
       /\ Count(c, item) = n
       /\ Count(c, total) = 1
       /\ \A k \in 1..n :
            /\ c[t + k].site = item
            /\ c[t + k].text = items[k].label
            /\ c[t + k].val = fmt_currency(items[k].amount, sym)
            /\ c[t + k].y = c[t].y - 20 * PT - (k - 1) * LineGap
       /\ c[g].text = label
       /\ c[g].val = fmt_currency(SumAmounts(items), sym)
       /\ n = 0 => AmountShown(c[g].val) = 0
       /\ c[g].y = c[t].y - 20 * PT - n * LineGap

FirstRowY(c, title) == c[At(c, title)].y - 20 * PT

\* C10: an earnings or deductions section of n items draws exactly n item
\* rows, in the order of the list, immediately followed by one total row with
\* the configured label; for n = 0 only the total row, showing zero; the
\* rows move the cursor by (n + 1) line gaps.
C10_RowsInOrderThenTotal ==
  InCall =>
    /\ RowsOk(canvas, "earnings_title", "earnings_item", "gross_total",
              args.earnings, args.totals_labels["gross_income_label"],
              args.currency_symbol)
    /\ RowsOk(canvas, "deductions_title", "deductions_item", "deduction_total",
              args.deductions, args.totals_labels["total_deduction_label"],
              args.currency_symbol)
    /\ rpc = "earnings_gap" =>
         y = FirstRowY(canvas, "earnings_title")
             - (Len(args.earnings) + 1) * LineGap
    /\ rpc = "net_pay_top" =>
         y = FirstRowY(canvas, "deductions_title")
             - (Len(args.deductions) + 1) * LineGap

C10_Witness ==
  /\ rpc = "net_pay_top"
  /\ Len(args.earnings) = 2
  /\ args.earnings[1].label = "Bonus"
  /\ args.earnings[2].label = "Basic"
  /\ args.deductions = <<>>


\* Where the cursor of a call on inputs a stands at position pc (turn k of a
\* loop), the signature embedded or not: nothing else is read.
CursorAt(a, pc, k, embedded) ==
  LET top == PageHeight - Margin
      info == top - 32 * MM
      earn == info - Len(info_rows) * LineGap - 14 * MM
      earn_end == earn - 20 * PT - (Len(a.earnings) + 1) * LineGap
      ded == earn_end - 18 * MM
      ded_end == ded - 20 * PT - (Len(a.deductions) + 1) * LineGap
      label == ded_end - 30 * MM
      sig == label - Get(a.footer_cfg, "signature_gap_mm", 4) * MM
      name == sig - (IF embedded THEN 18 * MM ELSE 0)
                  - Get(a.footer_cfg, "name_gap_mm", 3) * MM
      end == name - (IF Get(a.footer_cfg, "approved_by_name", "") # ""
                     THEN 10 * PT ELSE 0)
  IN CASE pc \in {"logo", "titles"} -> top
       [] pc = "header_sep" -> top - 22 * MM
       [] pc = "info" -> info - (k - 1) * LineGap
       [] pc = "info_sep" -> earn + 12 * MM
       [] pc = "earnings_title" -> earn
       [] pc = "earnings_items" -> earn - 20 * PT - (k - 1) * LineGap
       [] pc = "earnings_gap" -> earn_end
       [] pc = "earnings_sep" -> earn_end - 6 * MM
       [] pc = "deductions_title" -> ded
       [] pc = "deductions_items" -> ded - 20 * PT - (k - 1) * LineGap
       [] pc = "net_pay_top" -> ded_end
       [] pc = "net_pay_row" -> ded_end - 10 * MM
       [] pc = "net_pay_bottom" -> ded_end - 20 * MM
       [] pc = "footer_label" -> label
       [] pc \in {"signature", "footer_move"} -> sig
       [] pc = "footer_name" -> name
       [] OTHER -> end

\* C11: every render_pdf call starts its cursor at the page height minus the
\* margin, and at every step the cursor is a function of that call's inputs
\* (the signature at signature_path being embeddable or not among them), of
\* the margin and of the line gap: the calls made before with the same
\* exporter leave nothing behind, so two calls on the same inputs have the
\* same cursor at every step.
C11_CursorFromInputsOnly ==
  (InCall /\ ~(rpc = "raised" /\ result[2] = "mkdir")) =>
    /\ rpc = "logo" => y = PageHeight - Margin
    /\ y = CursorAt(args, rpc, i, "signature" \in Sites(canvas))

C11_Witness ==
  /\ mpc = "render"
  /\ idx = 2
  /\ employees[1] = employees[2]
  /\ Len(pdf_paths) = 1
  /\ rpc = "finish"
  /\ "signature" \in Sites(canvas)


\* C12: each employee row of a run gets its own PDF file: two different rows
\* never have the same output path, so the 'generated' rows of two different
\* employees never point to one file.
C12_OwnPdfPerEmployee ==
  \A j, k \in 1..Len(manifest_rows) :
    (/\ j < k
     /\ employees[j] # employees[k]
     /\ manifest_rows[j].status[1] = "generated"
     /\ manifest_rows[k].status[1] = "generated")
    => manifest_rows[j].pdf_path # manifest_rows[k].pdf_path


\* What the claim takes for a cell: its number when it parses as one
\* (a number, or a string float() accepts), zero otherwise.
CellAmount(emp, column) ==
  LET c == Get(emp.raw, column, NoneCell)
  IN IF c.t \in {"num", "numstr"} THEN c.v ELSE 0

\* The items the claim expects: the fields that pass Keep, in the order of
\* the configuration, each with its stripped label and its cell's amount.
ItemsWanted(emp, fields_cfg, Keep(_)) ==
  LET kept == SelectSeq(fields_cfg, Keep)
  IN [n \in 1..Len(kept) |->
        [label |-> StrStrip(kept[n].label),
         amount |-> CellAmount(emp, StrStrip(kept[n].column))]]

NonEmptyField(f) ==
  Get(f, "label", "") # "" /\ Get(f, "column", "") # ""

NonBlankField(f) ==
  StrStrip(Get(f, "label", "")) # "" /\ StrStrip(Get(f, "column", "")) # ""

\* C13 as stated: every field whose label and column are not the empty string
\* yields an item (zero for an absent, None, blank or unparsable cell, the
\* number otherwise), the other fields yield none, in configuration order.
C13_NonEmptyAsWritten ==
  mpc = "render" =>
    /\ args.earnings
         = ItemsWanted(employees[idx], settings.fields.earnings, NonEmptyField)
    /\ args.deductions
         = ItemsWanted(employees[idx], settings.fields.deductions, NonEmptyField)

\* C13 (amended): the same with "empty" read after stripping whitespace: a
\* field whose label or column is missing or only whitespace yields no item;
\* every other field yields one item with the stripped label and the amount
\* of the cell (zero for an absent, None, blank or unparsable cell), in
\* configuration order; building the items never raises.
C13_LineItemsFromCells ==
  /\ mpc = "render" =>
       /\ args.earnings
            = ItemsWanted(employees[idx], settings.fields.earnings, NonBlankField)
       /\ args.deductions
            = ItemsWanted(employees[idx], settings.fields.deductions, NonBlankField)
  /\ (mpc = "loop" /\ idx < Len(employees)) => ENABLED M_NextEmployee

\* Items built from an unparsable cell, a number, and a blank cell, with the
\* empty, whitespace-only and column-less fields skipped.
C13_Witness ==
  /\ mpc = "render"
  /\ employees[idx].raw.basic.t = "text"
  /\ employees[idx].raw.tax.t = "blank"
  /\ args.earnings = << [label |-> "Basic", amount |-> 0],
                        [label |-> "Allowance", amount |-> 3] >>
  /\ args.deductions = << [label |-> "Tax", amount |-> 0] >>
  /\ Len(settings.fields.earnings) = 5


\* The number of cents nearest to m eighths, a half going away from zero.
HalfAwayCents(m) == (25 * m + 1) \div 2

\* C14: fmt_currency(amount, symbol) is the symbol ("" for None), then "-"
\* for a negative amount, then the integer part with a comma every three
\* digits, a dot and two digits, the number shown being the amount rounded to
\* cents half away from zero; 1234567.5 with 'NGN ' is 'NGN 1,234,567.50' and
\* 0 with a pound sign is the sign and '0.00' (-42 stands for -42.1, which is
\* not a multiple of 1/8).
C14_FormatAsClaimed ==
  mpc = "formatted" =>
    LET a == args.amount
        body == Tail(result)
        num == IF a < 0 THEN Tail(body) ELSE body
        L == Len(num)
    IN /\ result[1] = (IF args.symbol = "None" THEN "" ELSE args.symbol)
       /\ a < 0 => body[1] = "-"
       /\ L >= 4
       /\ num[L - 2] = "."
       /\ IsDigit(num[L - 1]) /\ IsDigit(num[L])
       /\ \A p \in 1..(L - 3) :
            IF (L - 2 - p) % 4 = 0 THEN num[p] = "," ELSE IsDigit(num[p])
       /\ num[1] = "0" => L = 4
       /\ DigitsValue(SelectSeq(num, IsDigit))
            = HalfAwayCents(IF a < 0 THEN -a ELSE a)
       /\ (a = 9876540 /\ args.symbol = "NGN ") =>
            result = <<"NGN ", "1", ",", "2", "3", "4", ",", "5", "6", "7",
                       ".", "5", "0">>
       /\ (a = 0 /\ args.symbol = "£") => result = <<"£", "0", ".", "0", "0">>
       /\ (a = -336 /\ args.symbol = "$") =>
            result = <<"$", "-", "4", "2", ".", "0", "0">>


\* What a payslip page says of its employee.
PageOf(emp) ==
  [ref |-> emp.ref, name |-> emp.name, designation |-> emp.designation,
   department |-> emp.department]

\* C15: whenever the email step is reached, manifest_rows and employees have
\* the same length and manifest_rows[k] is the row of employees[k], whatever
\* the mix of generated and failed payslips; and every mail handed to Outlook
\* is addressed to the employee whose own payslip is the file it attaches.
C15_MailCarriesOwnPayslip ==
  mpc \in {"email", "send", "email_raised"} =>
    /\ Len(manifest_rows) = Len(employees)
    /\ \A k \in 1..Len(manifest_rows) :
         /\ manifest_rows[k].employee_ref = employees[k].ref
         /\ manifest_rows[k].name = employees[k].name
         /\ manifest_rows[k].email = employees[k].email
         /\ manifest_rows[k].pdf_path \in {<<>>, out_pdf(employees[k])}
    /\ \A n \in 1..Len(outbox) :
         \E k \in 1..Len(employees) :
            /\ outbox[n].req.to = employees[k].email
            /\ outbox[n].req.attachment_path = manifest_rows[k].pdf_path
            /\ pdf_files[outbox[n].req.attachment_path] = PageOf(employees[k])


\* The mails due for the first k employees: one for each whose row is
\* 'generated', to the employee's address with the row's PDF, in row order.
RECURSIVE MailsDue(_)
MailsDue(k) ==
  IF k = 0 THEN <<>>
  ELSE IF manifest_rows[k].status[1] = "generated"
       THEN Append(MailsDue(k - 1),
                   [to |-> employees[k].email,
                    attachment_path |-> manifest_rows[k].pdf_path])
       ELSE MailsDue(k - 1)

MailsMade ==
  [n \in 1..Len(outbox) |->
     [to |-> outbox[n].req.to,
      attachment_path |-> outbox[n].req.attachment_path]]

\* C16: a mail is sent or displayed only after the generation loop has ended
\* and the manifest has been written, only with email.enabled true and, the
\* approval gate being on, after the answer y or yes; the mails made are, in
\* order, one per employee passed so far whose row is 'generated' (non-empty
\* pdf_path), none for an employee whose generation failed, none twice.
C16_MailsOnlyAfterApproval ==
  /\ mpc \notin {"send", "done", "email_raised"} => outbox = <<>>
  /\ mpc \in {"send", "email_raised"} \/ outbox # <<>> =>
       /\ idx = Len(employees)
       /\ rpc = "idle"
       /\ manifest_file = <<"written", manifest_rows>>
       /\ Get(Get(settings, "email", NoCfg), "enabled", FALSE)
       /\ Get(settings.run, "approval_gate_before_email", TRUE) =>
            ans \in {"y", "yes"}
       /\ MailsMade = MailsDue(IF mpc = "email_raised" THEN eidx - 1 ELSE eidx)
       /\ \A k \in 1..Len(manifest_rows) :
            manifest_rows[k].status[1] = "generated"
              <=> manifest_rows[k].pdf_path # <<>>

\* A run of two employees, the first failed, the operator answering yes:
\* one mail, to the second.
C16_Witness ==
  /\ mpc = "done"
  /\ ans = "yes"
  /\ Len(employees) = 2
  /\ manifest_rows[1].status[1] = "error: "
  /\ manifest_rows[2].status[1] = "generated"
  /\ Len(outbox) = 1
  /\ outbox[1].req.to = employees[2].email
  /\ outbox[1].how = "Display"


\* The date a call takes for reference: the configured one, else today.
ReferenceOf(a) ==
  IF a.reference_date = <<>> THEN a.today ELSE a.reference_date

\* The configured reference date is empty or a day of the calendar.
ReferenceUsable(a) ==
  \/ a.reference_date = <<>>
  \/ /\ Len(a.reference_date) = 3
     /\ a.reference_date[2] \in 1..12
     /\ a.reference_date[3] >= 1
     /\ a.reference_date[3] <= DaysIn(a.reference_date[1], a.reference_date[2])

PreviousModes == {"auto_previous_month", "previous", "auto_previous", " Previous "}

CurrentModes == {"auto_current_month", "current", "auto_current"}

ManualModes == {"manual", "MANUAL"}

\* C17: with a previous-month mode resolve_period returns the month before
\* the reference date's month, December of the year before for a January;
\* with a current-month mode the reference date's own year and month; the
\* month is in 1..12 in both; a mode that is none of the manual, current and
\* previous names raises ValueError and no period is returned.
C17_PeriodFromReference ==
  mpc \in {"returned", "raised"} =>
    LET ref == ReferenceOf(args)
    IN /\ (ReferenceUsable(args) /\ args.period_mode \in PreviousModes) =>
            /\ mpc = "returned"
            /\ result = IF ref[2] = 1
                        THEN <<"PayrollPeriod", ref[1] - 1, 12>>
                        ELSE <<"PayrollPeriod", ref[1], ref[2] - 1>>
            /\ result[3] \in 1..12
       /\ (ReferenceUsable(args) /\ args.period_mode \in CurrentModes) =>
            /\ mpc = "returned"
            /\ result = <<"PayrollPeriod", ref[1], ref[2]>>
            /\ result[3] \in 1..12
       /\ args.period_mode \notin PreviousModes \cup CurrentModes \cup ManualModes =>
            /\ mpc = "raised"
            /\ result[1] = "ValueError"

\* A January reference date resolved to December of the year before.
C17_Witness ==
  /\ mpc = "returned"
  /\ args.period_mode = "auto_previous_month"
  /\ args.reference_date = <<2025, 1, 31>>
  /\ result = <<"PayrollPeriod", 2024, 12>>

====
